---- MODULE Spec2Model ----
(***************************************************************************)
(* Connection lifecycle of the document-store facade (NoSQLStore), its     *)
(* scoped-connection helper (ConnectionContext) and the MongoDB adapter.   *)
(***************************************************************************)
EXTENDS Integers, Sequences, FiniteSets, TLC

\* ---------------------------------------------------------------- bounds
MaxHandles == 2     \* backend client objects that may ever be constructed
MaxDepth == 2       \* nesting depth of with-blocks
MaxIds == 1         \* documents that may ever be inserted
MaxCloseFail == 1   \* times a backend close may raise
MaxDocs == 2        \* documents the bulk and update operations may ever create
MaxValue == 2       \* largest field value an increment may produce
NumThreads == 5     \* threads of the concurrent-access test

None == 0
Handles == 1 .. MaxHandles
Values == {0, 1}

VARIABLES
    store,        \* "none" until a constructor call returns, then "built"
    cfgDatabase,  \* config.connection.database is set
    conn,         \* the Connection Descriptor (NoSQLConnection) at hand
    pc,           \* where each worker thread stands
    local,        \* what each worker thread holds in local variables: the
                  \* adapter the client property returned to it, the backend
                  \* client object _init_client returned to it
    peer,         \* a second Store built from the same configuration: the
                  \* adapter bound to it, the adapter's _client and
                  \* _database, the with-blocks open on it
    adapter,      \* the adapter instance bound to the facade's _client
                  \* attribute, numbered in creation order; 0: attribute unset
    client,       \* adapter._client: None or the handle held
    database,     \* adapter._database: None or the handle it was taken from
    handles,      \* state of every backend client object
    closeCount,   \* backend close() invocations per client object
    blocks,       \* open with-blocks, outermost first: the kind of value
                  \* (Store or backend handle) each bound
    coll,         \* documents of the collection, in insertion order
    nextId,       \* next identifier the backend assigns
    closeFails,   \* backend close() invocations per client object that raised
    sinceClose,   \* "no": connected since the last close (or never closed);
                  \* "clean" / "failed": how the latest close or block exit ended
    last          \* the last call made by the application and its result

vars == <<store, cfgDatabase, conn, pc, local, peer, adapter, client, database,
          handles, closeCount, blocks, coll, nextId, closeFails, sinceClose,
          last>>

\* ------------------------------------------------------- values and results
NoneVal == [kind |-> "None", id |-> 0]
StoreRef == [kind |-> "Store", id |-> 0]
ContextRef == [kind |-> "Context", id |-> 0]
HandleRef(h) == [kind |-> "Handle", id |-> h]
StrVal(n) == [kind |-> "Str", id |-> n]
IntVal(n) == [kind |-> "Int", id |-> n]
DecStr(n) == [kind |-> "Dec", id |-> n]    \* n rendered in decimal digits

\* filters and payloads the application may pass
NoneArg == [kind |-> "None", a |-> 0]
EmptyArg == [kind |-> "Empty", a |-> 0]
FieldArg(v) == [kind |-> "Fields", a |-> v]
Filters == {NoneArg, EmptyArg} \cup {FieldArg(v) : v \in Values}
Payloads == {NoneArg, EmptyArg} \cup {FieldArg(v) : v \in Values}
Limits == {-1, 0, 1}      \* values of the limit argument of find
\* a document with a second field: {a: 0, b: 1}
TwoFieldArg == [kind |-> "Fields", a |-> 0, b |-> 1]
\* a document that brings its own integer identifier: {"_id": 1, a: 1}
OwnIdArg == [kind |-> "Fields", a |-> 1, oid |-> 1]

\* update specifications: {"$set": {a: v}}, and one that mixes an operator
\* key with a plain field
SetArg(v) == [kind |-> "Set", a |-> v]
MixedArg == [kind |-> "Mixed", a |-> 0]
\* {"$inc": {a: v}}
IncArg(v) == [kind |-> "Inc", a |-> v]
\* an argument that is neither a mapping nor a list (a string)
InvalidArg == [kind |-> "Invalid", a |-> 0]
UpdateSpecs == {NoneArg, EmptyArg, FieldArg(1), SetArg(0), MixedArg}

\* list arguments
NoneList == [kind |-> "None", items |-> <<>>]
ListArg(s) == [kind |-> "List", items |-> s]
SeqsUpTo2(S) == {<<>>} \cup {<<x>> : x \in S} \cup {<<x, y>> : x \in S, y \in S}
Lists(S) == {ListArg(s) : s \in SeqsUpTo2(S)}
UpdateEntries == {FieldArg(1), SetArg(0), MixedArg}
UpdateLists == {NoneList} \cup Lists(UpdateEntries)
DocLists == {NoneList} \cup Lists({FieldArg(v) : v \in Values})
FilterEntries == {EmptyArg, FieldArg(0), FieldArg(1), InvalidArg}
BulkFilters == (Filters \cup {InvalidArg}) \cup Lists(FilterEntries)

Result(op, outcome, value, docs, pre, exc, closeErr, storeCloses) ==
    [op |-> op, outcome |-> outcome, value |-> value, docs |-> docs,
     pre |-> pre, exc |-> exc, closeErr |-> closeErr,
     storeCloses |-> storeCloses,
     again |-> (op = "_close" /\ last.op = "_close"), args |-> <<>>,
     calls |-> 0, uri |-> ""]

CallResult(op, outcome, value) ==
    Result(op, outcome, value, <<>>, client, FALSE, FALSE, 0)

\* a handle is live when the backend object is open
Live(h) == h # None /\ handles[h] = "open"

\* ------------------------------------------- the Connection Descriptor
\* an optional field: Absent is None, Some(x) the value x
Absent == <<>>
Some(x) == <<x>>

\* Python truth value of an optional string and of an optional integer
StrTruthy(opt) == opt # Absent /\ opt[1] # ""
IntTruthy(opt) == opt # Absent /\ opt[1] # 0

NoSQLConnection(uri, host, port, username, password, db, auth, ssl) ==
    [built |-> TRUE, uri |-> uri, host |-> host, port |-> port,
     username |-> username, password |-> password, database |-> db,
     auth_source |-> auth, ssl |-> ssl]

\* no descriptor at hand: the constructor raised
NoConnection ==
    [NoSQLConnection(Absent, Absent, Absent, Absent, Absent, Absent, Absent,
                     FALSE) EXCEPT !.built = FALSE]

\* the descriptor of the Store's configuration: a host, and a database name
\* or none
StoreConnection(db) ==
    NoSQLConnection(Absent, Some("h"), Absent, Absent, Absent,
                    IF db THEN Some("d") ELSE Absent, Absent, FALSE)

\* variant of the validator that tests "is None"
ValidateConnection_NoneOnly(d) == d.uri # Absent \/ d.host # Absent

\* validate_connection: "if not self.uri and not self.host: raise ValueError"
ValidateConnection(d) == StrTruthy(d.uri) \/ StrTruthy(d.host)

\* "auth_part": username, then ":" and the password if there is one, then "@"
AuthPart(d) ==
    IF StrTruthy(d.username)
    THEN IF StrTruthy(d.password)
         THEN d.username[1] \o ":" \o d.password[1] \o "@"
         ELSE d.username[1] \o "@"
    ELSE ""

\* f":{self.port}" if self.port else ""
PortPart(d) == IF IntTruthy(d.port) THEN ":" \o ToString(d.port[1]) ELSE ""

\* query_params
QueryParams(d) ==
    IF StrTruthy(d.auth_source) THEN <<"authSource=" \o d.auth_source[1]>>
    ELSE <<>>

RECURSIVE Join(_, _)
\* sep.join(parts)
Join(parts, sep) ==
    IF parts = <<>> THEN ""
    ELSE IF Len(parts) = 1 THEN parts[1]
    ELSE parts[1] \o sep \o Join(Tail(parts), sep)

\* variant of the URI construction that puts the password in even when no
\* username is given
BuildUri_LonePassword(d) ==
    LET scheme == IF d.ssl THEN "mongodb+srv" ELSE "mongodb"
        auth == IF StrTruthy(d.password) /\ ~StrTruthy(d.username)
                THEN ":" \o d.password[1] \o "@" ELSE AuthPart(d)
        base == scheme \o "://" \o auth \o d.host[1] \o PortPart(d)
        withDb == IF StrTruthy(d.database)
                  THEN base \o "/" \o d.database[1] ELSE base IN
    IF QueryParams(d) # <<>>
    THEN withDb \o "?" \o Join(QueryParams(d), "&")
    ELSE withDb

\* the URI built from the components of a descriptor with a host
BuildUri(d) ==
    LET scheme == IF d.ssl THEN "mongodb+srv" ELSE "mongodb"
        base == scheme \o "://" \o AuthPart(d) \o d.host[1] \o PortPart(d)
        withDb == IF StrTruthy(d.database)
                  THEN base \o "/" \o d.database[1] ELSE base IN
    IF QueryParams(d) # <<>>
    THEN withDb \o "?" \o Join(QueryParams(d), "&")
    ELSE withDb

\* variant of the property that builds the URI from the components even when
\* uri is set
ConnectionUri_IgnoresUri(d) ==
    IF ~StrTruthy(d.host) THEN [raised |-> TRUE, uri |-> ""]
    ELSE [raised |-> FALSE, uri |-> BuildUri(d)]

\* the computed property connection_uri
ConnectionUri(d) ==
    IF StrTruthy(d.uri) THEN [raised |-> FALSE, uri |-> d.uri[1]]
    ELSE IF ~StrTruthy(d.host) THEN [raised |-> TRUE, uri |-> ""]
    ELSE [raised |-> FALSE, uri |-> BuildUri(d)]

\* the worker threads of the concurrency test
Threads == 1 .. NumThreads

\* a thread that has called nothing yet holds nothing
NoLocal == [t \in Threads |-> [adapter |-> 0, handle |-> None]]

\* no second Store in use: no adapter bound to it, nothing open on it
NoPeer ==
    [adapter |-> 0, client |-> None, database |-> None, blocks |-> <<>>,
     sinceClose |-> "no"]

\* ------------------------------------------------------------- the adapter
FreshHandle == CHOOSE h \in Handles :
    /\ handles[h] = "unborn"
    /\ \A g \in Handles : g < h => handles[g] # "unborn"

CanCreate == \E h \in Handles : handles[h] = "unborn"

\* variant of _init_client that hands the client object on when the ping
\* has failed
InitClient_KeepsFailed(ok) ==
    LET h == FreshHandle IN
    [handles |-> [handles EXCEPT ![h] = "open"],
     ret |-> h,
     raised |-> IF ok THEN "none" ELSE "ConnectError"]

\* _init_client: constructs a MongoClient, pings it, raises when the ping fails
InitClient(ok) ==
    LET h == FreshHandle IN
    [handles |-> [handles EXCEPT ![h] = "open"],
     ret |-> IF ok THEN h ELSE None,
     raised |-> IF ok THEN "none" ELSE "ConnectError"]

\* variant of _connect without the "if not self._client" test
AdapterConnect_AlwaysInit(ok) ==
    IF client = None \/ CanCreate
    THEN LET r == InitClient(ok) IN
         [client |-> r.ret, handles |-> r.handles, ret |-> r.ret,
          raised |-> r.raised]
    ELSE [client |-> client, handles |-> handles, ret |-> client,
          raised |-> "none"]

\* variant of _connect that makes a second attempt when the first one fails
AdapterConnect_Retries(ok) ==
    IF client = None
    THEN LET r == InitClient(ok)
             more == {h \in Handles : r.handles[h] = "unborn"} IN
         IF ~ok /\ more # {}
         THEN [client |-> None,
               handles |-> [r.handles EXCEPT ![CHOOSE h \in more : TRUE] = "open"],
               ret |-> None, raised |-> r.raised]
         ELSE [client |-> r.ret, handles |-> r.handles, ret |-> r.ret,
               raised |-> r.raised]
    ELSE [client |-> client, handles |-> handles, ret |-> client,
          raised |-> "none"]

\* adapter _connect
AdapterConnect(ok) ==
    IF client = None
    THEN LET r == InitClient(ok) IN
         [client |-> r.ret, handles |-> r.handles, ret |-> r.ret,
          raised |-> r.raised]
    ELSE [client |-> client, handles |-> handles, ret |-> client,
          raised |-> "none"]

\* variant of _close that closes the backend object and keeps self._client
AdapterClose_KeepsClient(closeOk, stillOpen) ==
    IF client # None
    THEN [client |-> client, database |-> database,
          handles |-> [handles EXCEPT ![client] =
                          IF closeOk \/ ~stillOpen THEN "closed" ELSE @],
          closeCount |-> [closeCount EXCEPT ![client] = @ + 1],
          closeFails |-> IF closeOk THEN closeFails
                         ELSE [closeFails EXCEPT ![client] = @ + 1],
          raised |-> IF closeOk THEN "none" ELSE "CloseError"]
    ELSE [client |-> client, database |-> database, handles |-> handles,
          closeCount |-> closeCount, closeFails |-> closeFails,
          raised |-> "none"]

\* variant of _close that forgets the handle without closing the backend
\* object
AdapterClose_DropsHandle(closeOk, stillOpen) ==
    [client |-> None, database |-> None, handles |-> handles,
     closeCount |-> closeCount, closeFails |-> closeFails, raised |-> "none"]

\* adapter _close; closeOk: the backend close returns, stillOpen: when it
\* raises, whether the backend object stays open
AdapterClose(closeOk, stillOpen) ==
    IF client # None
    THEN IF closeOk
         THEN [client |-> None, database |-> None,
               handles |-> [handles EXCEPT ![client] = "closed"],
               closeCount |-> [closeCount EXCEPT ![client] = @ + 1],
               closeFails |-> closeFails,
               raised |-> "none"]
         ELSE [client |-> client, database |-> database,
               handles |-> [handles EXCEPT ![client] =
                               IF stillOpen THEN @ ELSE "closed"],
               closeCount |-> [closeCount EXCEPT ![client] = @ + 1],
               closeFails |-> [closeFails EXCEPT ![client] = @ + 1],
               raised |-> "CloseError"]
    ELSE [client |-> client, database |-> database, handles |-> handles,
          closeCount |-> closeCount, closeFails |-> closeFails,
          raised |-> "none"]

RECURSIVE SumFails(_)
SumFails(h) == IF h = 0 THEN 0 ELSE closeFails[h] + SumFails(h - 1)

\* the environment may make the backend close raise only a bounded number of
\* times
CloseInputOk(closeOk, stillOpen) ==
    IF closeOk THEN stillOpen = FALSE
    ELSE client # None /\ SumFails(MaxHandles) < MaxCloseFail

\* variant of _get_database without the "client not initialized" test
GetCollection_NoClientCheck ==
    IF database = None
    THEN IF cfgDatabase
         THEN [database |-> client, raised |-> "none"]
         ELSE [database |-> database, raised |-> "NoDatabase"]
    ELSE [database |-> database, raised |-> "none"]

\* variant of _get_database that takes the database named in the uri when
\* the descriptor has no database component
GetCollection_UriDatabase ==
    IF client = None
    THEN [database |-> database, raised |-> "NotConnected"]
    ELSE IF database = None
         THEN IF cfgDatabase \/ StrTruthy(conn.uri)
              THEN [database |-> client, raised |-> "none"]
              ELSE [database |-> database, raised |-> "NoDatabase"]
         ELSE [database |-> database, raised |-> "none"]

\* _get_database / _get_collection
GetCollection ==
    IF client = None
    THEN [database |-> database, raised |-> "NotConnected"]
    ELSE IF database = None
         THEN IF cfgDatabase
              THEN [database |-> client, raised |-> "none"]
              ELSE [database |-> database, raised |-> "NoDatabase"]
         ELSE [database |-> database, raised |-> "none"]

\* a backend call on the handle held: the driver refuses a client object
\* that was closed, and may reject any call (backendOk)
BackendCall(backendOk) == backendOk /\ Live(client)

\* Python truth value of an argument: None, {} and [] are false
Truthy(arg) ==
    /\ arg.kind \notin {"None", "Empty"}
    /\ arg.kind = "List" => arg.items # <<>>

\* variant of validate_not_none that tests "is None"
ValidateNotNone_NoneOnly(arg) == arg.kind # "None"

\* identifiers of stored documents: n > 0 is the n-th ObjectId the backend
\* assigned, -k the integer k a document brought as its own "_id"
IsObjectId(id) == id > 0

\* the identifier insert_one stores data under, n being the next ObjectId
InsertedId(n, data) == IF "oid" \in DOMAIN data THEN -data.oid ELSE n

\* str(inserted_id): the text of an ObjectId, the digits of an integer
StrOf(id) == IF IsObjectId(id) THEN StrVal(id) ELSE DecStr(-id)

\* the document insert_one and insert_many store for data under the
\* identifier n
NewDoc(n, data) ==
    IF "b" \in DOMAIN data THEN [id |-> n, a |-> data.a, b |-> data.b]
    ELSE [id |-> n, a |-> data.a]

\* validate_not_none: "if not param_value: raise ValueError"
ValidateNotNone(arg) == Truthy(arg)

\* variant of the filter semantics in which an empty filter selects nothing
Matches_FieldsOnly(doc, f) == f.kind = "Fields" /\ doc.a = f.a

\* documents a filter selects: no filter and the empty filter select all
Matches(doc, f) == f.kind \in {"None", "Empty"} \/ doc.a = f.a

RECURSIVE SelectSeq2(_, _, _)
SelectSeq2(s, f, keep) ==
    IF s = <<>> THEN <<>>
    ELSE IF Matches(Head(s), f) = keep
         THEN <<Head(s)>> \o SelectSeq2(Tail(s), f, keep)
         ELSE SelectSeq2(Tail(s), f, keep)

\* -------------------------------------------------- construction, registry
DEFAULT_NOSQL_FRAMEWORK == "mongodb"

\* configurations.Framework: member name |-> value
Framework ==
    [MONGODB |-> "mongodb", COUCHDB |-> "couchdb", DYNAMODB |-> "dynamodb"]

\* keys of adapters.adapter_router
adapter_router == {"mongodb"}

StrSel(s) == [kind |-> "str", name |-> s]
EnumSel(m) == [kind |-> "enum", name |-> m]

\* backend selectors a configuration may carry
Selectors ==
    {StrSel("mongodb"), StrSel("MongoDB"), StrSel("couchdb"), StrSel(""),
     EnumSel("MONGODB"), EnumSel("DYNAMODB")}

\* the selector's plain string form: the value of an enumeration member,
\* str() of anything else
FrameworkStr(sel) ==
    IF sel.kind = "enum" THEN Framework[sel.name] ELSE sel.name

\* variant of _init_component_factory without the registry lookup
InitComponentFactory_NoLookup(sel) ==
    [framework |-> DEFAULT_NOSQL_FRAMEWORK, raised |-> "none"]

\* _init_component_factory: an empty selector falls back to the default;
\* the string form is looked up in the registry
InitComponentFactory(sel) ==
    LET framework_str ==
            IF sel.kind = "str" /\ sel.name = ""
            THEN DEFAULT_NOSQL_FRAMEWORK
            ELSE FrameworkStr(sel) IN
    IF framework_str \notin adapter_router
    THEN [framework |-> framework_str, raised |-> "ConfigurationError"]
    ELSE [framework |-> framework_str, raised |-> "none"]

\* variant of the factory that keeps one adapter and hands it to every Store
CreateClient_Shared == IF peer.adapter # 0 THEN peer.adapter ELSE 1

\* component_factory.create_client(): a new adapter object on every call;
\* adapters are numbered in creation order
CreateClient == (IF adapter > peer.adapter THEN adapter ELSE peer.adapter) + 1

\* variant of the client property that builds an adapter on every access
ClientProperty_Recreates == (adapter % 2) + 1

\* NoSQLStore.client: the adapter is built by the factory on the first
\* access and cached in _client
ClientProperty == IF adapter = 0 THEN CreateClient ELSE adapter

\* ------------------------------------------------------------------- Init
Init ==
    /\ store = "none"
    /\ cfgDatabase \in BOOLEAN
    /\ conn = StoreConnection(cfgDatabase)
    /\ pc = [t \in Threads |-> "start"]
    /\ local = NoLocal
    /\ peer = NoPeer
    /\ adapter = 0
    /\ client = None
    /\ database = None
    /\ handles = [h \in Handles |-> "unborn"]
    /\ closeCount = [h \in Handles |-> 0]
    /\ blocks = <<>>
    /\ coll = <<>>
    /\ nextId = 1
    /\ closeFails = [h \in Handles |-> 0]
    /\ sinceClose = "no"
    /\ last = [op |-> "init", outcome |-> "ok", value |-> NoneVal,
               docs |-> <<>>, pre |-> None, exc |-> FALSE,
               closeErr |-> FALSE, storeCloses |-> 0, again |-> FALSE,
               args |-> <<>>, calls |-> 0, uri |-> ""]

\* NoSQLStore.__init__ with a valid connection section and the selector sel
Construct(sel) ==
    /\ store = "none"
    /\ LET r == InitComponentFactory(sel) IN
       /\ store' = IF r.raised = "none" THEN "built" ELSE store
       /\ last' = [CallResult("construct",
                      IF r.raised = "none" THEN "ok" ELSE r.raised,
                      IF r.raised = "none" THEN StoreRef ELSE NoneVal)
                   EXCEPT !.args = <<sel>>]
    /\ UNCHANGED <<local, peer, cfgDatabase, conn, pc, adapter, client, database, handles,
                   closeCount, closeFails, sinceClose, blocks, coll, nextId>>

\* ------------------------------------------------- connect, close, scoping
\* NoSQLStore._connect(): self.client.connect()
StoreConnect(ok) ==
    /\ store = "built"
    /\ client = None => CanCreate
    /\ LET r == AdapterConnect(ok) IN
       /\ adapter' = ClientProperty
       /\ client' = r.client
       /\ handles' = r.handles
       /\ sinceClose' = IF r.raised = "none" THEN "no" ELSE sinceClose
       /\ last' = CallResult("_connect",
                     IF r.raised = "none" THEN "ok" ELSE r.raised,
                     IF r.raised = "none" THEN HandleRef(r.ret) ELSE NoneVal)
    /\ UNCHANGED <<local, peer, store, cfgDatabase, conn, pc, database, closeCount, closeFails, blocks,
                   coll, nextId>>

\* NoSQLStore._close(): self.client.close()
StoreClose(closeOk, stillOpen) ==
    /\ store = "built"
    /\ CloseInputOk(closeOk, stillOpen)
    /\ LET r == AdapterClose(closeOk, stillOpen) IN
       /\ adapter' = ClientProperty
       /\ client' = r.client
       /\ database' = r.database
       /\ handles' = r.handles
       /\ closeCount' = r.closeCount
       /\ closeFails' = r.closeFails
       /\ sinceClose' = IF r.raised = "none" THEN "clean" ELSE "failed"
       /\ last' = Result("_close",
                     IF r.raised = "none" THEN "ok" ELSE r.raised,
                     NoneVal, <<>>, client, FALSE, r.raised # "none", 1)
    /\ UNCHANGED <<local, peer, store, cfgDatabase, conn, pc, blocks, coll, nextId>>

\* NoSQLStore.connect() called on its own: builds a ConnectionContext
ConnectCall ==
    /\ store = "built"
    /\ last' = CallResult("connect", "ok", ContextRef)
    /\ UNCHANGED <<local, peer, store, cfgDatabase, conn, pc, adapter, client, database, handles,
                   closeCount, closeFails, sinceClose, blocks, coll, nextId>>

\* NoSQLStore.close(): the facade defines no such method
CloseCall ==
    /\ store = "built"
    /\ last' = CallResult("close", "AttributeError", NoneVal)
    /\ UNCHANGED <<local, peer, store, cfgDatabase, conn, pc, adapter, client, database, handles,
                   closeCount, closeFails, sinceClose, blocks, coll, nextId>>

\* ConnectionContext.__enter__: the value the with-statement binds
ContextEnter(r) == HandleRef(r.ret)

\* with store.connect() as x: the block is entered when __enter__ returns
Enter(ok) ==
    /\ store = "built"
    /\ Len(blocks) < MaxDepth
    /\ client = None => CanCreate
    /\ LET r == AdapterConnect(ok) IN
       /\ adapter' = ClientProperty
       /\ client' = r.client
       /\ handles' = r.handles
       /\ IF r.raised = "none"
          THEN /\ blocks' = Append(blocks, ContextEnter(r).kind)
               /\ sinceClose' = "no"
               /\ last' = CallResult("enter", "ok", ContextEnter(r))
          ELSE /\ blocks' = blocks
               /\ sinceClose' = sinceClose
               /\ last' = CallResult("enter", r.raised, NoneVal)
    /\ UNCHANGED <<local, peer, store, cfgDatabase, conn, pc, database, closeCount, closeFails, coll,
                   nextId>>

\* variant of __exit__ that closes only when the body did not raise
ContextExit_SkipsCloseOnError(exc, closeOk, stillOpen) ==
    LET r == IF exc
             THEN [client |-> client, database |-> database,
                   handles |-> handles, closeCount |-> closeCount,
                   closeFails |-> closeFails, raised |-> "none"]
             ELSE AdapterClose(closeOk, stillOpen) IN
    [close |-> r, storeCloses |-> IF exc THEN 0 ELSE 1,
     raises |-> (r.raised # "none" /\ ~exc), suppress |-> FALSE]

\* variant of __exit__ without the "if exc_type is None" test
ContextExit_AlwaysRaises(exc, closeOk, stillOpen) ==
    LET r == AdapterClose(closeOk, stillOpen) IN
    [close |-> r, storeCloses |-> 1,
     raises |-> r.raised # "none", suppress |-> FALSE]

\* ConnectionContext.__exit__: calls the Store's _close once; a close error
\* is raised only when no exception of the body (exc) is in flight; returns
\* False
ContextExit(exc, closeOk, stillOpen) ==
    LET r == AdapterClose(closeOk, stillOpen) IN
    [close |-> r, storeCloses |-> 1,
     raises |-> (r.raised # "none" /\ ~exc), suppress |-> FALSE]

\* what the with-statement surfaces to the caller
WithOutcome(exc, x) ==
    IF x.raises THEN "CloseError"
    ELSE IF exc /\ ~x.suppress THEN "BodyError"
    ELSE "ok"

\* the innermost with-block ends, its body having raised (exc) or not
Exit(exc, closeOk, stillOpen) ==
    /\ store = "built"
    /\ blocks # <<>>
    /\ CloseInputOk(closeOk, stillOpen)
    /\ LET x == ContextExit(exc, closeOk, stillOpen)
           r == x.close IN
       /\ adapter' = IF x.storeCloses > 0 THEN ClientProperty ELSE adapter
       /\ client' = r.client
       /\ database' = r.database
       /\ handles' = r.handles
       /\ closeCount' = r.closeCount
       /\ closeFails' = r.closeFails
       /\ sinceClose' = IF r.raised = "none" THEN "clean" ELSE "failed"
       /\ blocks' = SubSeq(blocks, 1, Len(blocks) - 1)
       /\ last' = Result("exit", WithOutcome(exc, x), NoneVal, <<>>, client,
                         exc, r.raised # "none", x.storeCloses)
    /\ UNCHANGED <<local, peer, store, cfgDatabase, conn, pc, coll, nextId>>

\* ---------------------------------------------------------- data operations
\* insert: validate_not_none("data"), _get_collection, insert_one
StoreInsert(data, backendOk) ==
    LET g == GetCollection IN
    IF ~ValidateNotNone(data)
    THEN [database |-> database, coll |-> coll, nextId |-> nextId,
          outcome |-> "ValidationError", value |-> NoneVal,
          calls |-> 0]
    ELSE IF g.raised # "none"
    THEN [database |-> g.database, coll |-> coll, nextId |-> nextId,
          outcome |-> g.raised, value |-> NoneVal, calls |-> 0]
    ELSE IF \/ ~BackendCall(backendOk)
            \/ \E i \in 1 .. Len(coll) : coll[i].id = InsertedId(nextId, data)
    THEN [database |-> g.database, coll |-> coll, nextId |-> nextId,
          outcome |-> "BackendError", value |-> NoneVal, calls |-> 1]
    ELSE [database |-> g.database,
          coll |-> Append(coll, NewDoc(InsertedId(nextId, data), data)),
          nextId |-> IF IsObjectId(InsertedId(nextId, data))
                     THEN nextId + 1 ELSE nextId,
          outcome |-> "ok", value |-> StrOf(InsertedId(nextId, data)),
          calls |-> 1]

Insert(data, backendOk) ==
    /\ store = "built"
    /\ StoreInsert(data, backendOk).outcome = "ok" => nextId <= MaxIds
    /\ LET r == StoreInsert(data, backendOk) IN
       /\ adapter' = ClientProperty
       /\ database' = r.database
       /\ coll' = r.coll
       /\ nextId' = r.nextId
       /\ last' = [CallResult("insert", r.outcome, r.value)
                   EXCEPT !.args = <<data>>, !.calls = r.calls]
    /\ UNCHANGED <<local, peer, store, cfgDatabase, conn, pc, client, handles, closeCount, closeFails,
                   sinceClose, blocks>>

\* "filter=filters or {}"
FilterOrEmpty(filters) == IF Truthy(filters) THEN filters ELSE EmptyArg

\* variant of the limit conversion that hands the limit on as given
CursorLimit_AsGiven(limit) == limit

\* "limit=limit if limit > 0 else 0"
CursorLimit(limit) == IF limit > 0 THEN limit ELSE 0

Abs(n) == IF n < 0 THEN -n ELSE n

\* the documents a driver cursor yields: a limit of 0 is no limit, a negative
\* limit is read as its absolute value
Cursor(docs, lim) ==
    IF lim = 0 \/ Abs(lim) >= Len(docs) THEN docs ELSE SubSeq(docs, 1, Abs(lim))

\* variant of the loop of _find that leaves the identifier as the backend's
\* ObjectId
DocOut_RawId(d) ==
    [d EXCEPT !.id = IF IsObjectId(@) THEN [kind |-> "ObjectId", id |-> @]
                     ELSE IntVal(-@)]

\* a document as _find hands it out: "if ... isinstance(doc["_id"], ObjectId):
\* doc["_id"] = str(doc["_id"])", any other identifier stays what it is
DocOut(d) ==
    [d EXCEPT !.id = IF IsObjectId(@) THEN StrOf(@) ELSE IntVal(-@)]

RECURSIVE DocsOut(_)
DocsOut(docs) ==
    IF docs = <<>> THEN <<>> ELSE <<DocOut(Head(docs))>> \o DocsOut(Tail(docs))

\* _find after _get_collection: the cursor of find(filters or {}, limit)
FindDocuments(filters, limit) ==
    DocsOut(Cursor(SelectSeq2(coll, FilterOrEmpty(filters), TRUE),
                   CursorLimit(limit)))

\* find: _get_collection, find(filters or {}), identifiers as strings
Find(filters, limit, backendOk) ==
    /\ store = "built"
    /\ LET g == GetCollection IN
       /\ adapter' = ClientProperty
       /\ database' = g.database
       /\ last' = [(IF g.raised # "none"
                    THEN CallResult("find", g.raised, NoneVal)
                    ELSE IF ~BackendCall(backendOk)
                    THEN CallResult("find", "BackendError", NoneVal)
                    ELSE Result("find", "ok", NoneVal,
                                FindDocuments(filters, limit),
                                client, FALSE, FALSE, 0))
                   EXCEPT !.args = <<filters, limit, backendOk>>,
                          !.calls = IF g.raised = "none" THEN 1 ELSE 0]
    /\ UNCHANGED <<local, peer, store, cfgDatabase, conn, pc, client, handles, closeCount, closeFails,
                   sinceClose, blocks, coll, nextId>>

\* delete: _get_collection, delete_many(filters); the driver rejects a None
\* filter
Delete(filters, backendOk) ==
    /\ store = "built"
    /\ LET g == GetCollection
           fails == ~BackendCall(backendOk) \/ filters.kind = "None"
           rest == SelectSeq2(coll, filters, FALSE) IN
       /\ adapter' = ClientProperty
       /\ database' = g.database
       /\ coll' = IF g.raised = "none" /\ ~fails THEN rest ELSE coll
       /\ last' = [(IF g.raised # "none"
                    THEN CallResult("delete", g.raised, NoneVal)
                    ELSE IF fails
                    THEN CallResult("delete", "BackendError", NoneVal)
                    ELSE CallResult("delete", "ok",
                                    IntVal(Len(coll) - Len(rest))))
                   EXCEPT !.args = <<filters, backendOk>>,
                          !.calls = IF g.raised = "none" THEN 1 ELSE 0]
    /\ UNCHANGED <<local, peer, store, cfgDatabase, conn, pc, client, handles, closeCount, closeFails,
                   sinceClose, blocks, nextId>>

\* insert called on the value a with-block bound (conn.insert(...)): a
\* backend client object has no such method
BoundInsert(i) ==
    /\ store = "built"
    /\ i \in 1 .. Len(blocks)
    /\ IF blocks[i] = "Store"
       THEN \E d \in Payloads, b \in BOOLEAN : Insert(d, b)
       ELSE /\ last' = CallResult("bound.insert", "TypeError", NoneVal)
            /\ UNCHANGED <<local, peer, store, cfgDatabase, conn, pc, adapter, client, database, handles,
                           closeCount, closeFails, sinceClose, blocks, coll,
                           nextId>>

\* --------------------------------------------- the backend's bulk calls
IsMapping(f) == f.kind \in {"Empty", "Fields"}

\* variant of the update operators that puts the document {a: value} in
\* the place of the matched one
ApplyUpdate_Replaces(d, u) ==
    [id |-> d.id, a |-> IF u.kind = "Inc" THEN d.a + u.a ELSE u.a]

\* what {"$set": {a: v}} and {"$inc": {a: v}} make of a document: only the
\* field a changes
ApplyUpdate(d, u) ==
    [d EXCEPT !.a = IF u.kind = "Inc" THEN @ + u.a ELSE u.a]

RECURSIVE SetAll(_, _, _)
SetAll(s, f, u) ==
    IF s = <<>> THEN <<>>
    ELSE <<IF Matches(Head(s), f) THEN ApplyUpdate(Head(s), u) ELSE Head(s)>>
         \o SetAll(Tail(s), f, u)

RECURSIVE CountChanged(_, _, _)
CountChanged(s, f, u) ==
    IF s = <<>> THEN 0
    ELSE (IF Matches(Head(s), f) /\ ApplyUpdate(Head(s), u) # Head(s)
          THEN 1 ELSE 0)
         + CountChanged(Tail(s), f, u)

\* the document an upsert creates: the equality fields of the filter, then
\* the update operators applied to them
UpsertDoc(n, f, u) ==
    [id |-> n,
     a |-> IF u.kind = "Inc" /\ f.kind = "Fields" THEN f.a + u.a ELSE u.a]

\* variant of update_many that counts the document an upsert creates as
\* modified
UpdateMany_CountsUpsert(c, n, f, doc, upsert) ==
    IF ~IsMapping(f) \/ doc.kind \notin {"Set", "Inc"}
    THEN [coll |-> c, nextId |-> n, modified |-> 0, raised |-> TRUE]
    ELSE IF upsert /\ SelectSeq2(c, f, TRUE) = <<>>
    THEN [coll |-> Append(c, UpsertDoc(n, f, doc)), nextId |-> n + 1,
          modified |-> 1, raised |-> FALSE]
    ELSE [coll |-> SetAll(c, f, doc), nextId |-> n,
          modified |-> CountChanged(c, f, doc), raised |-> FALSE]

\* update_many(filters, update, upsert) on the documents c, n being the next
\* identifier: the driver rejects a filter that is no mapping and an update
\* document that is not made of operators only; modified_count counts the
\* matched documents whose content changed; with upsert and no match one
\* document is created and modified_count is 0
UpdateMany(c, n, f, doc, upsert) ==
    IF ~IsMapping(f) \/ doc.kind \notin {"Set", "Inc"}
    THEN [coll |-> c, nextId |-> n, modified |-> 0, raised |-> TRUE]
    ELSE IF upsert /\ SelectSeq2(c, f, TRUE) = <<>>
    THEN [coll |-> Append(c, UpsertDoc(n, f, doc)), nextId |-> n + 1,
          modified |-> 0, raised |-> FALSE]
    ELSE [coll |-> SetAll(c, f, doc), nextId |-> n,
          modified |-> CountChanged(c, f, doc), raised |-> FALSE]

\* delete_many(filters)
DeleteMany(c, f) ==
    IF ~IsMapping(f)
    THEN [coll |-> c, deleted |-> 0, raised |-> TRUE]
    ELSE [coll |-> SelectSeq2(c, f, FALSE),
          deleted |-> Len(c) - Len(SelectSeq2(c, f, FALSE)),
          raised |-> FALSE]

RECURSIVE InsertMany(_, _, _)
\* insert_many(documents), for documents that bring no identifier of their
\* own: identifiers are assigned in list order
InsertMany(c, n, docs) ==
    IF docs = <<>> THEN [coll |-> c, nextId |-> n, inserted_ids |-> <<>>]
    ELSE LET r == InsertMany(Append(c, NewDoc(n, Head(docs))),
                             n + 1, Tail(docs)) IN
         [r EXCEPT !.inserted_ids = <<n>> \o @]

\* --------------------------------------------------- update, bulk operations
HasOperatorKey(u) == u.kind \in {"Set", "Inc", "Mixed"}

\* "if not any(key.startswith("$") ...): update = {"$set": update}"
NormalizeUpdate(u) == IF HasOperatorKey(u) THEN u ELSE SetArg(u.a)

\* what an operation leaves behind and hands back; calls: the backend calls
\* it made
Outcome(database_, coll_, nextId_, outcome, value, calls) ==
    [database |-> database_, coll |-> coll_, nextId |-> nextId_,
     outcome |-> outcome, value |-> value, calls |-> calls]

\* update: validate_not_none("update_data"), _get_collection, update_many
StoreUpdate(filters, update_data, upsert, backendOk) ==
    LET g == GetCollection
        r == UpdateMany(coll, nextId, filters, NormalizeUpdate(update_data),
                        upsert) IN
    IF ~ValidateNotNone(update_data)
    THEN Outcome(database, coll, nextId, "ValidationError", NoneVal, 0)
    ELSE IF g.raised # "none"
    THEN Outcome(g.database, coll, nextId, g.raised, NoneVal, 0)
    ELSE IF ~BackendCall(backendOk) \/ r.raised
    THEN Outcome(g.database, coll, nextId, "BackendError", NoneVal, 1)
    ELSE Outcome(g.database, r.coll, r.nextId, "ok", IntVal(r.modified),
                 1)

\* variant of the conversion that returns the identifiers themselves
BulkInsertResult_Ids(inserted_ids) ==
    IF Len(inserted_ids) = 1 THEN StrVal(inserted_ids[1])
    ELSE DecStr(Len(inserted_ids))

\* f"{len(result.inserted_ids)}"
BulkInsertResult(inserted_ids) == DecStr(Len(inserted_ids))

\* variant of bulk_insert that sends the documents one insert at a time
StoreBulkInsert_OneByOne(data, backendOk) ==
    LET g == GetCollection
        r == InsertMany(coll, nextId, data.items) IN
    IF ~ValidateNotNone(data)
    THEN Outcome(database, coll, nextId, "ValidationError", NoneVal, 0)
    ELSE IF g.raised # "none"
    THEN Outcome(g.database, coll, nextId, g.raised, NoneVal, 0)
    ELSE IF ~BackendCall(backendOk)
    THEN Outcome(g.database, coll, nextId, "BackendError", NoneVal, 1)
    ELSE Outcome(g.database, r.coll, r.nextId, "ok",
                 BulkInsertResult(r.inserted_ids), Len(data.items))

\* bulk_insert: validate_not_none("data"), _get_collection, insert_many
StoreBulkInsert(data, backendOk) ==
    LET g == GetCollection
        r == InsertMany(coll, nextId, data.items) IN
    IF ~ValidateNotNone(data)
    THEN Outcome(database, coll, nextId, "ValidationError", NoneVal, 0)
    ELSE IF g.raised # "none"
    THEN Outcome(g.database, coll, nextId, g.raised, NoneVal, 0)
    ELSE IF ~BackendCall(backendOk)
    THEN Outcome(g.database, coll, nextId, "BackendError", NoneVal, 1)
    ELSE Outcome(g.database, r.coll, r.nextId, "ok",
                 BulkInsertResult(r.inserted_ids), 1)

\* variant of the loop body with "total_modified = result.modified_count"
BulkUpdateStep_KeepsLastCount(acc, filters, update_doc, upsert) ==
    LET r == UpdateMany(acc.coll, acc.nextId, filters,
                        NormalizeUpdate(update_doc), upsert) IN
    [coll |-> r.coll, nextId |-> r.nextId,
     total |-> IF r.raised THEN acc.total ELSE r.modified,
     raised |-> r.raised, calls |-> acc.calls + 1]

\* one iteration of the loop of _bulk_update
BulkUpdateStep(acc, filters, update_doc, upsert) ==
    LET r == UpdateMany(acc.coll, acc.nextId, filters,
                        NormalizeUpdate(update_doc), upsert) IN
    [coll |-> r.coll, nextId |-> r.nextId,
     total |-> IF r.raised THEN acc.total ELSE acc.total + r.modified,
     raised |-> r.raised, calls |-> acc.calls + 1]

RECURSIVE BulkUpdateLoop(_, _, _, _)
\* "for update_doc in update_data": stops at the first entry that raises
BulkUpdateLoop(acc, filters, items, upsert) ==
    IF items = <<>> THEN acc
    ELSE LET r == BulkUpdateStep(acc, filters, Head(items), upsert) IN
         IF r.raised THEN r
         ELSE BulkUpdateLoop(r, filters, Tail(items), upsert)

\* variant of _bulk_update that restores the collection when an entry raises
StoreBulkUpdate_Rollback(filters, update_data, upsert, backendOk) ==
    LET g == GetCollection
        r == BulkUpdateLoop([coll |-> coll, nextId |-> nextId, total |-> 0,
                             raised |-> FALSE, calls |-> 0],
                            filters, update_data.items, upsert) IN
    IF ~ValidateNotNone(update_data)
    THEN Outcome(database, coll, nextId, "ValidationError", NoneVal, 0)
    ELSE IF g.raised # "none"
    THEN Outcome(g.database, coll, nextId, g.raised, NoneVal, 0)
    ELSE IF ~BackendCall(backendOk)
    THEN Outcome(g.database, coll, nextId, "BackendError", NoneVal, 1)
    ELSE IF r.raised
    THEN Outcome(g.database, coll, nextId, "BackendError", NoneVal, r.calls)
    ELSE Outcome(g.database, r.coll, r.nextId, "ok", IntVal(r.total),
                 r.calls)

\* bulk_update: validate_not_none("update_data"), _get_collection, then one
\* update_many per entry; what the entries before a raising one did stays
StoreBulkUpdate(filters, update_data, upsert, backendOk) ==
    LET g == GetCollection
        r == BulkUpdateLoop([coll |-> coll, nextId |-> nextId, total |-> 0,
                             raised |-> FALSE, calls |-> 0],
                            filters, update_data.items, upsert) IN
    IF ~ValidateNotNone(update_data)
    THEN Outcome(database, coll, nextId, "ValidationError", NoneVal, 0)
    ELSE IF g.raised # "none"
    THEN Outcome(g.database, coll, nextId, g.raised, NoneVal, 0)
    ELSE IF ~BackendCall(backendOk)
    THEN Outcome(g.database, coll, nextId, "BackendError", NoneVal, 1)
    ELSE IF r.raised
    THEN Outcome(g.database, r.coll, r.nextId, "BackendError", NoneVal,
                 r.calls)
    ELSE Outcome(g.database, r.coll, r.nextId, "ok", IntVal(r.total),
                 r.calls)

\* variant of the loop body with "total_deleted = result.deleted_count"
BulkDeleteStep_KeepsLastCount(acc, filter_doc) ==
    LET r == DeleteMany(acc.coll, filter_doc) IN
    [coll |-> r.coll,
     total |-> IF r.raised THEN acc.total ELSE r.deleted,
     raised |-> r.raised, calls |-> acc.calls + 1]

\* one iteration of the loop of _bulk_delete
BulkDeleteStep(acc, filter_doc) ==
    LET r == DeleteMany(acc.coll, filter_doc) IN
    [coll |-> r.coll,
     total |-> IF r.raised THEN acc.total ELSE acc.total + r.deleted,
     raised |-> r.raised, calls |-> acc.calls + 1]

RECURSIVE BulkDeleteLoop(_, _)
\* "for filter_doc in filters": stops at the first filter that raises
BulkDeleteLoop(acc, items) ==
    IF items = <<>> THEN acc
    ELSE LET r == BulkDeleteStep(acc, Head(items)) IN
         IF r.raised THEN r ELSE BulkDeleteLoop(r, Tail(items))

\* variant of _bulk_delete that restores the collection when a filter raises
StoreBulkDelete_Rollback(filters, backendOk) ==
    LET g == GetCollection
        r == IF filters.kind = "List"
             THEN BulkDeleteLoop([coll |-> coll, total |-> 0,
                                  raised |-> FALSE, calls |-> 0], filters.items)
             ELSE BulkDeleteStep([coll |-> coll, total |-> 0,
                                  raised |-> FALSE, calls |-> 0], filters) IN
    IF g.raised # "none"
    THEN Outcome(g.database, coll, nextId, g.raised, NoneVal, 0)
    ELSE IF ~(IsMapping(filters) \/ filters.kind = "List")
    THEN Outcome(g.database, coll, nextId, "ValidationError", NoneVal, 0)
    ELSE IF filters = ListArg(<<>>)
    THEN Outcome(g.database, coll, nextId, "ok", IntVal(0), 0)
    ELSE IF ~BackendCall(backendOk) \/ r.raised
    THEN Outcome(g.database, coll, nextId, "BackendError", NoneVal,
                 IF BackendCall(backendOk) THEN r.calls ELSE 1)
    ELSE Outcome(g.database, r.coll, nextId, "ok", IntVal(r.total),
                 r.calls)

\* bulk_delete: _get_collection first; a mapping is applied once, a list
\* filter by filter (an empty list makes no backend call), any other
\* argument raises ValueError
StoreBulkDelete(filters, backendOk) ==
    LET g == GetCollection
        r == IF filters.kind = "List"
             THEN BulkDeleteLoop([coll |-> coll, total |-> 0,
                                  raised |-> FALSE, calls |-> 0], filters.items)
             ELSE BulkDeleteStep([coll |-> coll, total |-> 0,
                                  raised |-> FALSE, calls |-> 0], filters) IN
    IF g.raised # "none"
    THEN Outcome(g.database, coll, nextId, g.raised, NoneVal, 0)
    ELSE IF ~(IsMapping(filters) \/ filters.kind = "List")
    THEN Outcome(g.database, coll, nextId, "ValidationError", NoneVal, 0)
    ELSE IF filters = ListArg(<<>>)
    THEN Outcome(g.database, coll, nextId, "ok", IntVal(0), 0)
    ELSE IF ~BackendCall(backendOk)
    THEN Outcome(g.database, coll, nextId, "BackendError", NoneVal, 1)
    ELSE IF r.raised
    THEN Outcome(g.database, r.coll, nextId, "BackendError", NoneVal,
                 r.calls)
    ELSE Outcome(g.database, r.coll, nextId, "ok", IntVal(r.total),
                 r.calls)

\* variant of the data operations that opens a connection when the Store
\* holds none
DataCall_Reconnects(op, args, r) ==
    /\ store = "built"
    /\ r.nextId <= MaxDocs + 1
    /\ \A i \in 1 .. Len(r.coll) : r.coll[i].a <= MaxValue
    /\ adapter' = ClientProperty
    /\ database' = r.database
    /\ coll' = r.coll
    /\ nextId' = r.nextId
    /\ last' = [CallResult(op, r.outcome, r.value)
                EXCEPT !.args = args, !.calls = r.calls]
    /\ IF client = None /\ CanCreate
       THEN /\ client' = FreshHandle
            /\ handles' = [handles EXCEPT ![FreshHandle] = "open"]
       ELSE UNCHANGED <<client, handles>>
    /\ UNCHANGED <<local, peer, store, cfgDatabase, conn, pc, closeCount,
                   closeFails, sinceClose, blocks>>

\* a data operation of the facade ends with the outcome r; args are the
\* arguments of the call, followed by whether the backend served the calls
DataCall(op, args, r) ==
    /\ store = "built"
    /\ r.nextId <= MaxDocs + 1
    /\ \A i \in 1 .. Len(r.coll) : r.coll[i].a <= MaxValue
    /\ adapter' = ClientProperty
    /\ database' = r.database
    /\ coll' = r.coll
    /\ nextId' = r.nextId
    /\ last' = [CallResult(op, r.outcome, r.value)
                EXCEPT !.args = args, !.calls = r.calls]
    /\ UNCHANGED <<local, peer, store, cfgDatabase, conn, pc, client, handles, closeCount,
                   closeFails, sinceClose, blocks>>

Update(filters, update_data, upsert, backendOk) ==
    DataCall("update", <<filters, update_data, upsert, backendOk>>,
             StoreUpdate(filters, update_data, upsert, backendOk))

BulkInsert(data, backendOk) ==
    DataCall("bulk_insert", <<data>>, StoreBulkInsert(data, backendOk))

BulkUpdate(filters, update_data, upsert, backendOk) ==
    DataCall("bulk_update", <<filters, update_data, upsert, backendOk>>,
             StoreBulkUpdate(filters, update_data, upsert, backendOk))

BulkDelete(filters, backendOk) ==
    DataCall("bulk_delete", <<filters, backendOk>>,
             StoreBulkDelete(filters, backendOk))

\* ------------------------------------------------------------------- Next
Next ==
    \/ \E sel \in Selectors : Construct(sel)
    \/ \E ok \in BOOLEAN : StoreConnect(ok)
    \/ \E closeOk, stillOpen \in BOOLEAN : StoreClose(closeOk, stillOpen)
    \/ ConnectCall
    \/ CloseCall
    \/ \E ok \in BOOLEAN : Enter(ok)
    \/ \E exc, closeOk, stillOpen \in BOOLEAN : Exit(exc, closeOk, stillOpen)
    \/ \E d \in Payloads, b \in BOOLEAN : Insert(d, b)
    \/ \E f \in Filters, b \in BOOLEAN : Find(f, 0, b)
    \/ \E f \in Filters, b \in BOOLEAN : Delete(f, b)
    \/ \E i \in 1 .. MaxDepth : BoundInsert(i)

Spec == Init /\ [][Next]_vars

\* ------------------------------------------- the data operations on their own
\* a Store after construction, connected by one successful connect or not
DataInit ==
    \E connected \in BOOLEAN :
        /\ store = "built"
        /\ cfgDatabase \in BOOLEAN
        /\ conn = StoreConnection(cfgDatabase)
        /\ pc = [t \in Threads |-> "start"]
        /\ local = NoLocal
        /\ peer = NoPeer
        /\ adapter = IF connected THEN 1 ELSE 0
        /\ client = IF connected THEN 1 ELSE None
        /\ database = None
        /\ handles = [h \in Handles |->
                         IF connected /\ h = 1 THEN "open" ELSE "unborn"]
        /\ closeCount = [h \in Handles |-> 0]
        /\ blocks = <<>>
        /\ coll = <<>>
        /\ nextId = 1
        /\ closeFails = [h \in Handles |-> 0]
        /\ sinceClose = "no"
        /\ last = [op |-> IF connected THEN "_connect" ELSE "construct",
                   outcome |-> "ok",
                   value |-> IF connected THEN HandleRef(1) ELSE StoreRef,
                   docs |-> <<>>, pre |-> None, exc |-> FALSE,
                   closeErr |-> FALSE, storeCloses |-> 0, again |-> FALSE,
                   args |-> <<>>, calls |-> 0, uri |-> ""]

DataNext ==
    \/ \E d \in Payloads, b \in BOOLEAN : Insert(d, b)
    \/ \E f \in Filters, l \in Limits, b \in BOOLEAN : Find(f, l, b)
    \/ \E f \in Filters, b \in BOOLEAN : Delete(f, b)
    \/ \E f \in Filters, u \in UpdateSpecs, up, b \in BOOLEAN :
           Update(f, u, up, b)
    \/ \E d \in DocLists, b \in BOOLEAN : BulkInsert(d, b)
    \/ \E f \in Filters, u \in UpdateLists, up, b \in BOOLEAN :
           BulkUpdate(f, u, up, b)
    \/ \E f \in BulkFilters, b \in BOOLEAN : BulkDelete(f, b)

DataSpec == DataInit /\ [][DataNext]_vars

\* ------------------- a connected Store whose descriptor names no database
\* the descriptor has no database component; it has a host only, or also a
\* uri, which names a database
NoDbInit ==
    /\ store = "built"
    /\ cfgDatabase = FALSE
    /\ conn \in {[StoreConnection(FALSE) EXCEPT !.uri = u] :
                    u \in {Absent, Some("mongodb://h/d")}}
    /\ pc = [t \in Threads |-> "start"]
    /\ local = NoLocal
    /\ peer = NoPeer
    /\ adapter = 1
    /\ client = 1
    /\ database = None
    /\ handles = [h \in Handles |-> IF h = 1 THEN "open" ELSE "unborn"]
    /\ closeCount = [h \in Handles |-> 0]
    /\ blocks = <<>>
    /\ coll = <<>>
    /\ nextId = 1
    /\ closeFails = [h \in Handles |-> 0]
    /\ sinceClose = "no"
    /\ last = [op |-> "_connect", outcome |-> "ok", value |-> HandleRef(1),
               docs |-> <<>>, pre |-> None, exc |-> FALSE,
               closeErr |-> FALSE, storeCloses |-> 0, again |-> FALSE,
               args |-> <<>>, calls |-> 0, uri |-> ""]

NoDbSpec == NoDbInit /\ [][DataNext]_vars

\* ------------------------- updates of documents with two fields, increments
FieldNext ==
    \/ \E d \in Lists({FieldArg(1), TwoFieldArg}) : BulkInsert(d, TRUE)
    \/ \E f \in {EmptyArg, FieldArg(0)} : Find(f, 0, TRUE)
    \/ \E f \in {EmptyArg, FieldArg(0)}, u \in {FieldArg(1), IncArg(1), MixedArg},
          up \in BOOLEAN :
           Update(f, u, up, TRUE)
    \/ \E f \in {EmptyArg, FieldArg(0)}, u \in Lists({SetArg(0), IncArg(1)}),
          up \in BOOLEAN :
           BulkUpdate(f, u, up, TRUE)

FieldSpec == DataInit /\ [][FieldNext]_vars

\* ------------------------------------ the Connection Descriptor on its own
Hosts == {Absent, Some(""), Some("h")}

\* the descriptors a caller may ask for: every field absent or set, the host
\* also set to the empty string and the port to 0
Descriptors ==
    {NoSQLConnection(u, h, p, un, pw, db, au, ssl) :
        u \in {Absent, Some("mongodb://o")}, h \in Hosts,
        p \in {Absent, Some(0), Some(27017)}, un \in {Absent, Some("u")},
        pw \in {Absent, Some("p")}, db \in {Absent, Some("d")},
        au \in {Absent, Some("a")}, ssl \in BOOLEAN}

\* NoSQLConnection(...): the fields are stored as given, then
\* validate_connection runs; when it raises there is no object
NewConnection(d) ==
    /\ conn' = IF ValidateConnection(d) THEN d ELSE NoConnection
    /\ last' = [CallResult("NoSQLConnection",
                           IF ValidateConnection(d) THEN "ok"
                           ELSE "ConfigError", NoneVal)
                EXCEPT !.args = <<d>>]
    /\ UNCHANGED <<local, peer, store, cfgDatabase, pc, adapter, client, database, handles,
                   closeCount, blocks, coll, nextId, closeFails, sinceClose>>

\* connection.host = h: an assignment, which runs no validator
SetHost(h) ==
    /\ conn.built
    /\ conn' = [conn EXCEPT !.host = h]
    /\ last' = [CallResult("host", "ok", NoneVal) EXCEPT !.args = <<h>>]
    /\ UNCHANGED <<local, peer, store, cfgDatabase, pc, adapter, client, database, handles,
                   closeCount, blocks, coll, nextId, closeFails, sinceClose>>

\* reading connection.connection_uri
ReadUri ==
    /\ conn.built
    /\ LET r == ConnectionUri(conn) IN
       last' = [CallResult("connection_uri",
                           IF r.raised THEN "ConfigError" ELSE "ok", NoneVal)
                EXCEPT !.uri = r.uri]
    /\ UNCHANGED <<local, peer, store, cfgDatabase, conn, pc, adapter, client, database,
                   handles, closeCount, blocks, coll, nextId, closeFails,
                   sinceClose>>

UriNext ==
    \/ \E d \in Descriptors : NewConnection(d)
    \/ \E h \in Hosts : SetHost(h)
    \/ ReadUri

UriSpec == Init /\ [][UriNext]_vars

\* ------------------------------- worker threads sharing one connected Store
\* each worker runs "with store.connect() as conn:" around one insert and
\* catches what is raised; a step is one method call, the backend is
\* reachable and healthy throughout

\* the with-statement of worker t calls __enter__
ThreadEnter(t) ==
    /\ store = "built"
    /\ pc[t] = "start"
    /\ client = None => CanCreate
    /\ LET r == AdapterConnect(TRUE) IN
       /\ adapter' = ClientProperty
       /\ client' = r.client
       /\ handles' = r.handles
       /\ sinceClose' = "no"
       /\ last' = [CallResult("enter", "ok", ContextEnter(r))
                   EXCEPT !.args = <<t>>]
    /\ pc' = [pc EXCEPT ![t] = "body"]
    /\ UNCHANGED <<local, peer, store, cfgDatabase, conn, database, closeCount,
                   closeFails, blocks, coll, nextId>>

\* the body of worker t inserts through the Store
ThreadInsert(t) ==
    /\ store = "built"
    /\ pc[t] = "body"
    /\ LET r == StoreInsert(FieldArg(1), TRUE) IN
       /\ adapter' = ClientProperty
       /\ database' = r.database
       /\ coll' = r.coll
       /\ nextId' = r.nextId
       /\ last' = [CallResult("insert", r.outcome, r.value)
                   EXCEPT !.args = <<t>>, !.calls = r.calls]
       /\ pc' = [pc EXCEPT ![t] = IF r.outcome = "ok" THEN "inserted"
                                  ELSE "failed"]
    /\ UNCHANGED <<local, peer, store, cfgDatabase, conn, client, handles, closeCount,
                   closeFails, sinceClose, blocks>>

\* the body of worker t calls insert on the value the with-statement bound,
\* as the test does: a backend client object has no such method
ThreadBoundInsert(t) ==
    IF ContextEnter([ret |-> client]).kind = "Store"
    THEN ThreadInsert(t)
    ELSE /\ store = "built"
         /\ pc[t] = "body"
         /\ last' = [CallResult("bound.insert", "TypeError", NoneVal)
                     EXCEPT !.args = <<t>>]
         /\ pc' = [pc EXCEPT ![t] = "failed_type"]
         /\ UNCHANGED <<local, peer, store, cfgDatabase, conn, adapter, client, database,
                        handles, closeCount, closeFails, sinceClose, blocks,
                        coll, nextId>>

\* the with-statement of worker t calls __exit__, the body having raised or
\* not
ThreadExit(t) ==
    /\ store = "built"
    /\ pc[t] \in {"inserted", "failed", "failed_type"}
    /\ LET exc == pc[t] # "inserted"
           x == ContextExit(exc, TRUE, FALSE)
           r == x.close IN
       /\ adapter' = IF x.storeCloses > 0 THEN ClientProperty ELSE adapter
       /\ client' = r.client
       /\ database' = r.database
       /\ handles' = r.handles
       /\ closeCount' = r.closeCount
       /\ closeFails' = r.closeFails
       /\ sinceClose' = IF r.raised = "none" THEN "clean" ELSE "failed"
       /\ last' = [Result("exit", WithOutcome(exc, x), NoneVal, <<>>, client,
                          exc, r.raised # "none", x.storeCloses)
                   EXCEPT !.args = <<t>>]
       /\ pc' = [pc EXCEPT ![t] = IF WithOutcome(exc, x) = "ok" THEN "done_ok"
                                  ELSE IF pc[t] = "failed_type"
                                  THEN "done_err_type" ELSE "done_err"]
    /\ UNCHANGED <<local, peer, store, cfgDatabase, conn, blocks, coll, nextId>>

\* the Store of the test fixture: a database name configured, connected
ThreadInit == DataInit /\ cfgDatabase /\ client # None

ThreadNext ==
    \/ \E t \in Threads : ThreadEnter(t)
    \/ \E t \in Threads : ThreadInsert(t)
    \/ \E t \in Threads : ThreadBoundInsert(t)
    \/ \E t \in Threads : ThreadExit(t)

ThreadSpec == ThreadInit /\ [][ThreadNext]_vars

\* ------------------------ two Stores built from the same configuration
\* the application turns to its other Store: what is said of "the Store"
\* from here on is said of that one
Switch ==
    /\ store = "built"
    /\ peer' = [adapter |-> adapter, client |-> client, database |-> database,
                blocks |-> blocks, sinceClose |-> sinceClose]
    /\ adapter' = peer.adapter
    /\ client' = peer.client
    /\ database' = peer.database
    /\ blocks' = peer.blocks
    /\ sinceClose' = peer.sinceClose
    /\ last' = CallResult("switch", "ok", NoneVal)
    /\ UNCHANGED <<store, cfgDatabase, conn, pc, local, handles, closeCount,
                   closeFails, coll, nextId>>

\* store1 = NoSQLStore(config); store2 = NoSQLStore(config): nothing
\* connected, no adapter created
TwoInit == DataInit /\ client = None

TwoNext ==
    \/ Switch
    \/ \E ok \in BOOLEAN : StoreConnect(ok)
    \/ \E closeOk, stillOpen \in BOOLEAN : StoreClose(closeOk, stillOpen)
    \/ \E b \in BOOLEAN : Insert(FieldArg(1), b)
    \/ \E b \in BOOLEAN : Find(EmptyArg, 0, b)

TwoSpec == TwoInit /\ [][TwoNext]_vars

\* ---------------- threads calling _connect on one Store, statement by statement
\* each thread runs store._connect(), that is self.client.connect(); a step
\* is one statement of the client property or of the adapter's _connect, and
\* nothing keeps a thread from running between two statements of another;
\* the backend is reachable. A thread whose adapter is no longer the one
\* bound to the facade is followed no further.

\* "if not hasattr(self, "_client")"
HasAttr(t) ==
    /\ store = "built"
    /\ pc[t] = "start"
    /\ pc' = [pc EXCEPT ![t] = IF adapter = 0 THEN "create" ELSE "read"]
    /\ UNCHANGED <<store, cfgDatabase, conn, local, peer, adapter, client,
                   database, handles, closeCount, blocks, coll, nextId,
                   closeFails, sinceClose, last>>

\* "self._client = self.component_factory.create_client()"
CreateStep(t) ==
    /\ pc[t] = "create"
    /\ adapter' = CreateClient
    /\ pc' = [pc EXCEPT ![t] = "read"]
    /\ UNCHANGED <<store, cfgDatabase, conn, local, peer, client, database,
                   handles, closeCount, blocks, coll, nextId, closeFails,
                   sinceClose, last>>

\* "return self._client": the adapter the thread goes on with
ReadClient(t) ==
    /\ pc[t] = "read"
    /\ local' = [local EXCEPT ![t].adapter = adapter]
    /\ pc' = [pc EXCEPT ![t] = "check"]
    /\ UNCHANGED <<store, cfgDatabase, conn, peer, adapter, client, database,
                   handles, closeCount, blocks, coll, nextId, closeFails,
                   sinceClose, last>>

\* the adapter's _connect: "if not self._client"
CheckClient(t) ==
    /\ pc[t] = "check"
    /\ local[t].adapter = adapter
    /\ pc' = [pc EXCEPT ![t] = IF client = None THEN "init" ELSE "return"]
    /\ UNCHANGED <<store, cfgDatabase, conn, local, peer, adapter, client,
                   database, handles, closeCount, blocks, coll, nextId,
                   closeFails, sinceClose, last>>

\* "self._init_client()": the right-hand side of the assignment
InitStep(t) ==
    /\ pc[t] = "init"
    /\ CanCreate
    /\ LET r == InitClient(TRUE) IN
       /\ handles' = r.handles
       /\ local' = [local EXCEPT ![t].handle = r.ret]
    /\ pc' = [pc EXCEPT ![t] = "assign"]
    /\ UNCHANGED <<store, cfgDatabase, conn, peer, adapter, client, database,
                   closeCount, blocks, coll, nextId, closeFails, sinceClose,
                   last>>

\* "self._client = ...": the assignment itself
AssignStep(t) ==
    /\ pc[t] = "assign"
    /\ client' = local[t].handle
    /\ pc' = [pc EXCEPT ![t] = "return"]
    /\ UNCHANGED <<store, cfgDatabase, conn, local, peer, adapter, database,
                   handles, closeCount, blocks, coll, nextId, closeFails,
                   sinceClose, last>>

\* "return self._client": what the caller of _connect gets
ReturnStep(t) ==
    /\ pc[t] = "return"
    /\ local' = [local EXCEPT ![t].handle = client]
    /\ pc' = [pc EXCEPT ![t] = "connected"]
    /\ sinceClose' = "no"
    /\ last' = [CallResult("_connect", "ok", HandleRef(client))
                EXCEPT !.args = <<t>>]
    /\ UNCHANGED <<store, cfgDatabase, conn, peer, adapter, client, database,
                   handles, closeCount, blocks, coll, nextId, closeFails>>

\* the two threads that call _connect at the same time
Racers == {1, 2}

RaceNext ==
    \/ \E t \in Racers : HasAttr(t)
    \/ \E t \in Racers : CreateStep(t)
    \/ \E t \in Racers : ReadClient(t)
    \/ \E t \in Racers : CheckClient(t)
    \/ \E t \in Racers : InitStep(t)
    \/ \E t \in Racers : AssignStep(t)
    \/ \E t \in Racers : ReturnStep(t)

\* the threads start on a Store that has just been constructed
RaceSpec == TwoInit /\ [][RaceNext]_vars

\* --------------------- insert and find, documents with their own identifier
IdNext ==
    \/ \E d \in {FieldArg(0), FieldArg(1), TwoFieldArg, OwnIdArg},
          b \in BOOLEAN :
           Insert(d, b)
    \/ \E f \in {EmptyArg, FieldArg(0), FieldArg(1)}, l \in Limits,
          b \in BOOLEAN :
           Find(f, l, b)
    \/ \E f \in {EmptyArg, FieldArg(0), FieldArg(1)} : Delete(f, TRUE)

IdSpec == DataInit /\ [][IdNext]_vars

\* ===================================================================
\* Properties
\* ===================================================================
DataOps == {"insert", "find", "delete"}
ConnectOps == {"_connect", "enter"}
NeverConnected == \A h \in Handles : handles[h] = "unborn"

C2_TeardownErrorPrecedence ==
    last.op = "exit" =>
        /\ (last.exc => last.outcome = "BodyError")
        /\ (last.closeErr /\ ~last.exc => last.outcome = "CloseError")
        /\ (~last.closeErr /\ ~last.exc => last.outcome = "ok")

C2_Witness ==
    /\ last.op = "exit" /\ last.closeErr /\ last.exc
    /\ last.outcome = "BodyError"

\* C3: connect on a Store that already holds a handle, also by entering the
\* scoped helper inside an open scoped block, succeeds, returns the handle
\* held and creates no backend client object.
C3_ConnectReusesHandle ==
    [][(client # None /\ last'.op \in ConnectOps) =>
         /\ last'.outcome = "ok"
         /\ last'.value = HandleRef(client)
         /\ client' = client
         /\ handles' = handles]_vars

C3_Witness ==
    /\ last.op = "enter" /\ last.outcome = "ok" /\ last.pre # None
    /\ Len(blocks) = 2
    /\ last.value = HandleRef(last.pre) /\ client = last.pre

\* C4 (as stated): when an inner scoped block exits while an outer block of
\* the same Store is still open, the Store stays connected with the handle
\* it had.
C4_InnerExitKeepsConnection ==
    (last.op = "exit" /\ blocks # <<>> /\ last.pre # None) =>
        client = last.pre

C6_EnterYieldsStore ==
    /\ \A i \in 1 .. Len(blocks) : blocks[i] = StoreRef.kind
    /\ (last.op = "enter" /\ last.outcome = "ok") => last.value = StoreRef
    /\ (last.op = "bound.insert" => last.outcome # "TypeError")

\* C7 (as stated): on a Store on which connect was never called and no
\* scoped block was entered, a data operation does not fail for want of a
\* connection.
C7_OperationsWithoutConnect ==
    (NeverConnected /\ blocks = <<>> /\ last.op \in DataOps) =>
        last.outcome # "NotConnected"

\* C8 (as stated): connect() called directly on the Store leaves it
\* connected with a live handle, and close() called on the Store returns and
\* leaves it without a handle.
C8_DirectConnectAndClose ==
    /\ last.op = "connect" => (last.outcome = "ok" /\ Live(client))
    /\ last.op = "close" => (last.outcome = "ok" /\ client = None)

ClientOps == ConnectOps \cup DataOps \cup {"_close", "exit"}

\* C11: construction creates no adapter; the first operation that reaches
\* the client property creates it, and once created the same adapter
\* instance stays bound, through every connect/close cycle
C11_LazySingleAdapter ==
    [][/\ (last'.op = "construct" => adapter' = 0)
       /\ (last'.op \in ClientOps => adapter' # 0)
       /\ (adapter # 0 => adapter' = adapter)]_vars

\* a query answered on the second backend handle, after a full
\* connect/close cycle, by the adapter created first
C11_Witness ==
    /\ adapter = 1
    /\ last.op = "find"
    /\ last.outcome = "ok"
    /\ client = 2
    /\ closeCount[1] > 0

\* ------------------------------------------------------------------ C12
NothingCreated ==
    /\ store = "none"
    /\ adapter = 0
    /\ client = None
    /\ \A h \in Handles : handles[h] = "unborn"

\* C12 as stated: every selector whose string form is not a registry key
\* makes construction fail with a configuration error, nothing being
\* created or connected
C12_UnknownSelectorFails ==
    (last.op = "construct" /\ FrameworkStr(last.args[1]) \notin adapter_router)
        => (last.outcome = "ConfigurationError" /\ NothingCreated)

\* C12, amended: every non-empty selector whose string form (compared
\* case-sensitively) is not a registry key makes construction fail with a
\* configuration error, no adapter being created and no connection
\* attempted; an empty selector is replaced by the default and succeeds
C12_NonEmptyUnknownSelectorFails ==
    last.op = "construct" =>
        LET sel == last.args[1] IN
        /\ (sel # StrSel("") /\ FrameworkStr(sel) \notin adapter_router)
               => (last.outcome = "ConfigurationError" /\ NothingCreated)
        /\ sel = StrSel("") => (last.outcome = "ok" /\ store = "built")
        /\ adapter = 0

\* construction refused for a selector that differs from a key only in case
C12_Witness ==
    /\ last.op = "construct"
    /\ last.args[1] = StrSel("MongoDB")
    /\ last.outcome = "ConfigurationError"
    /\ NothingCreated

\* ------------------------------------------------------------------ C13
RECURSIVE SumSeq(_)
SumSeq(s) == IF s = <<>> THEN 0 ELSE Head(s) + SumSeq(Tail(s))

\* an entry as the backend receives it: wrapped as a set-operation exactly
\* when none of its keys begins with "$"
AsOperators(u) == IF u.kind = "Fields" THEN SetArg(u.a) ELSE u

RECURSIVE SeparateUpdates(_, _, _, _, _)
\* the entries us applied one after the other as separate updates against
\* the filter f, with the modified count of each
SeparateUpdates(c, n, f, us, upsert) ==
    IF us = <<>> THEN [coll |-> c, nextId |-> n, counts |-> <<>>]
    ELSE LET r == UpdateMany(c, n, f, AsOperators(Head(us)), upsert)
             rest == SeparateUpdates(r.coll, r.nextId, f, Tail(us), upsert) IN
         [rest EXCEPT !.counts = <<r.modified>> \o @]

\* C13: a bulk_update that returns has applied its entries in list order,
\* each as a separate update against the same filter and each normalized on
\* its own, and returns the sum of the per-entry modified counts
C13_BulkUpdateInOrder ==
    [][(last'.op = "bulk_update" /\ last'.outcome = "ok") =>
          LET e == SeparateUpdates(coll, nextId, last'.args[1],
                                   last'.args[2].items, last'.args[3]) IN
          /\ coll' = e.coll
          /\ last'.value = IntVal(SumSeq(e.counts))]_vars

\* a plain entry then an operator entry over two documents: the first pass
\* modifies one document, the second both, three in all
C13_Witness ==
    /\ last.op = "bulk_update"
    /\ last.outcome = "ok"
    /\ last.args[1] = EmptyArg
    /\ last.args[2] = ListArg(<<FieldArg(1), SetArg(0)>>)
    /\ last.value = IntVal(3)
    /\ Len(coll) = 2

\* ------------------------------------------------------------------ C14
\* the position of the first update_many that raises: the first call when
\* the backend serves none or the filter is no mapping, else the first entry
\* that is not made of operators only
UpdateRaisesAt(k, f, us, served) ==
    IF ~served \/ ~IsMapping(f) THEN k = 1
    ELSE /\ us[k].kind = "Mixed"
         /\ \A j \in 1 .. k - 1 : us[j].kind # "Mixed"

\* C14: when the k-th entry of a bulk_update raises, the collection is what
\* the entries before k made of it (nothing rolled back, nothing after k
\* applied) and the caller gets the exception, no count
C14_BulkUpdateNoRollback ==
    [][(last'.op = "bulk_update" /\ last'.outcome = "BackendError") =>
          LET f == last'.args[1]
              us == last'.args[2].items
              upsert == last'.args[3] IN
          /\ last'.value = NoneVal
          /\ \E k \in 1 .. Len(us) :
                /\ UpdateRaisesAt(k, f, us, last'.args[4])
                /\ coll' = SeparateUpdates(coll, nextId, f,
                                           SubSeq(us, 1, k - 1), upsert).coll]_vars

\* the second entry raised after the first had created a document by upsert
C14_Witness ==
    /\ last.op = "bulk_update"
    /\ last.outcome = "BackendError"
    /\ last.args[2] = ListArg(<<FieldArg(1), MixedArg>>)
    /\ last.args[3]
    /\ last.args[4]
    /\ IsMapping(last.args[1])
    /\ coll # <<>>
    /\ coll[Len(coll)] = [id |-> nextId - 1, a |-> 1]

\* ------------------------------------------------------------------ C15
RECURSIVE SeparateDeletes(_, _)
\* the filters fs applied one after the other, with the deleted count of each
SeparateDeletes(c, fs) ==
    IF fs = <<>> THEN [coll |-> c, counts |-> <<>>]
    ELSE LET r == DeleteMany(c, Head(fs))
             rest == SeparateDeletes(r.coll, Tail(fs)) IN
         [rest EXCEPT !.counts = <<r.deleted>> \o @]

\* C15: a bulk_delete that returns has, for a mapping, done what delete does
\* with that filter; for a list, applied the filters in list order and
\* returned the sum of their deleted counts, which is the number of documents
\* before minus the number after; an empty list deletes nothing, returns 0
C15_BulkDeleteSums ==
    [][(last'.op = "bulk_delete" /\ last'.outcome = "ok") =>
          LET f == last'.args[1]
              e == SeparateDeletes(coll, IF f.kind = "List" THEN f.items
                                         ELSE <<f>>) IN
          /\ f.kind # "List" =>
                /\ coll' = SelectSeq2(coll, f, FALSE)
                /\ last'.value = IntVal(Len(coll) - Len(coll'))
          /\ f.kind = "List" =>
                /\ coll' = e.coll
                /\ last'.value = IntVal(SumSeq(e.counts))
                /\ SumSeq(e.counts) = Len(coll) - Len(coll')
          /\ f = ListArg(<<>>) => (coll' = coll /\ last'.value = IntVal(0))]_vars

\* two overlapping filters, each of which removed one document
C15_Witness ==
    /\ last.op = "bulk_delete"
    /\ last.outcome = "ok"
    /\ last.args[1] = ListArg(<<FieldArg(0), EmptyArg>>)
    /\ last.value = IntVal(2)
    /\ coll = <<>>

\* ------------------------------------------------------------------ C16
DeleteRaisesAt(k, fs, served) ==
    IF ~served THEN k = 1
    ELSE /\ ~IsMapping(fs[k])
         /\ \A j \in 1 .. k - 1 : IsMapping(fs[j])

\* C16: when the k-th filter of a bulk_delete list raises, the deletions of
\* the filters before k persist, no filter after k is applied and the caller
\* gets the exception
C16_BulkDeleteNoRollback ==
    [][(/\ last'.op = "bulk_delete"
        /\ last'.args[1].kind = "List"
        /\ last'.outcome = "BackendError") =>
          LET fs == last'.args[1].items IN
          /\ last'.value = NoneVal
          /\ \E k \in 1 .. Len(fs) :
                /\ DeleteRaisesAt(k, fs, last'.args[2])
                /\ coll' = SeparateDeletes(coll, SubSeq(fs, 1, k - 1)).coll]_vars

\* the second filter raised; one document is left, so the first filter had
\* run on a collection of two
C16_Witness ==
    /\ last.op = "bulk_delete"
    /\ last.outcome = "BackendError"
    /\ last.args[1] = ListArg(<<FieldArg(0), InvalidArg>>)
    /\ last.args[2]
    /\ nextId = MaxDocs + 1
    /\ Len(coll) = 1
    /\ coll[1].a = 1

\* ------------------------------------------------------------------ C17
\* C17 as stated: bulk_delete with an argument that is neither a mapping nor
\* a list fails with a validation error and deletes nothing
C17_BulkDeleteRejectsOtherShapes ==
    [][(last'.op = "bulk_delete"
        /\ last'.args[1].kind \in {"None", "Invalid"}) =>
          (last'.outcome = "ValidationError" /\ coll' = coll)]_vars

\* ------------------------------------------------------------------ C18
PayloadOps == {"insert", "update", "bulk_insert", "bulk_update"}

\* the document, update_spec, document list or update_specs list of a call
PayloadOf(l) == IF l.op \in {"insert", "bulk_insert"} THEN l.args[1]
                ELSE l.args[2]

\* C18: insert, update, bulk_insert and bulk_update with a null or empty
\* payload fail with a validation error, before the collection is looked up
\* or the backend called; the collection is unchanged; an empty list is
\* not a no-op
C18_EmptyPayloadRejected ==
    [][(last'.op \in PayloadOps /\ ~Truthy(PayloadOf(last'))) =>
          /\ last'.outcome = "ValidationError"
          /\ last'.value = NoneVal
          /\ coll' = coll
          /\ nextId' = nextId
          /\ database' = database]_vars

\* an empty update_specs list refused on a collection that has documents
C18_Witness ==
    /\ last.op = "bulk_update"
    /\ last.args[2] = ListArg(<<>>)
    /\ last.outcome = "ValidationError"
    /\ coll # <<>>

\* ------------------------------------------------------------------ C19
FilterOps == {"update", "delete", "bulk_update"}

\* C19 as stated: update, delete and bulk_update with a null filter fail with
\* a validation error of this layer, before any backend call, the collection
\* unchanged
C19_NullFilterRejected ==
    [][(last'.op \in FilterOps /\ last'.args[1].kind = "None") =>
          /\ last'.outcome = "ValidationError"
          /\ coll' = coll
          /\ database' = database]_vars

\* ------------------------------------------------------------------ C20
RECURSIVE DecimalDigits(_)
DecimalDigits(n) ==
    IF n < 10 THEN <<[kind |-> "Char", id |-> n]>>
    ELSE DecimalDigits(n \div 10) \o <<[kind |-> "Char", id |-> n % 10]>>

\* the elements of a result, as indexing and len() see them: the characters
\* of a decimal string
ElementsOf(v) == IF v.kind = "Dec" THEN DecimalDigits(v.id) ELSE <<>>

OneDocumentInserted ==
    /\ last.op = "bulk_insert"
    /\ last.outcome = "ok"
    /\ Len(last.args[1].items) = 1

\* C20 as stated: the result of a one-document bulk_insert has exactly one
\* element, the string identifier of the inserted document
C20_OneElementIdentifierResult ==
    OneDocumentInserted =>
        /\ Len(ElementsOf(last.value)) = 1
        /\ ElementsOf(last.value)[1] = StrVal(coll[Len(coll)].id)

\* C20, amended: the result of a one-document bulk_insert is the count 1 as
\* a decimal string (a string of length one, whose one character is the
\* digit 1), not the identifier of the document, which is appended to the
\* collection with the next identifier
C20_OneDocumentCountString ==
    OneDocumentInserted =>
        /\ last.value = DecStr(1)
        /\ ElementsOf(last.value) = <<[kind |-> "Char", id |-> 1]>>
        /\ coll # <<>>
        /\ coll[Len(coll)] = [id |-> nextId - 1, a |-> last.args[1].items[1].a]

\* a one-document bulk_insert whose document got the identifier 2
C20_Witness ==
    /\ OneDocumentInserted
    /\ last.value = DecStr(1)
    /\ coll[Len(coll)].id = 2

\* ------------------------------------------------------------------ C21

\* C21: a bulk_insert of a list of N >= 1 documents that returns has appended
\* exactly N documents to the collection, the i-th new document carrying the
\* fields of the i-th list entry, has made one backend call, and has
\* returned N as a decimal string
C21_BulkInsertAddsN ==
    [][(last'.op = "bulk_insert" /\ last'.outcome = "ok") =>
          LET items == last'.args[1].items
              N == Len(items) IN
          /\ N >= 1
          /\ Len(coll') = Len(coll) + N
          /\ SubSeq(coll', 1, Len(coll)) = coll
          /\ \A i \in 1..N : coll'[Len(coll) + i].a = items[i].a
          /\ last'.calls = 1
          /\ last'.value = DecStr(N)
          /\ ElementsOf(last'.value) = DecimalDigits(N)]_vars

\* a bulk_insert of two documents with different fields
C21_Witness ==
    /\ last.op = "bulk_insert"
    /\ last.outcome = "ok"
    /\ Len(last.args[1].items) = 2
    /\ Len(coll) = 2
    /\ coll[1].a # coll[2].a
    /\ last.value = DecStr(2)
    /\ last.calls = 1

\* ------------------------------------------------------------------ C22
\* a set of the field in one entry and an increment of it in a later one
ConflictingEntries(items) ==
    \E i, j \in 1 .. Len(items) :
        i < j /\ items[i].kind = "Set" /\ items[j].kind = "Inc"

\* C22: a bulk_update whose entries set a field and then increment the same
\* field raises an exception
C22_ConflictingEntriesRaise ==
    (last.op = "bulk_update" /\ ConflictingEntries(last.args[2].items))
        => last.outcome # "ok"

\* what the code does with such a list on a connected Store with a reachable
\* backend and no upsert: one update_many per entry, no exception, the counts
\* added up and the increment applied on top of the set
C22_ConflictingEntriesApplied ==
    [][(/\ last'.op = "bulk_update"
        /\ last'.args[2].items = <<SetArg(0), IncArg(1)>>
        /\ last'.args[3] = FALSE
        /\ last'.args[4]
        /\ GetCollection.raised = "none"
        /\ Live(client))
       => /\ last'.outcome = "ok"
          /\ last'.calls = 2
          /\ \A i \in 1 .. Len(coll) :
                 Matches(coll[i], last'.args[1]) => coll'[i].a = 1]_vars

\* ------------------------------------------------------------------ C23
\* the documents of c after an update that sets the field a to v on the
\* documents matching f and touches nothing else
OnlyFieldSet(c, f, v) ==
    [i \in 1 .. Len(c) |->
        IF Matches(c[i], f) THEN [c[i] EXCEPT !.a = v] ELSE c[i]]

\* the documents of c after an update that adds v to the field a of the
\* documents matching f
OnlyFieldIncremented(c, f, v) ==
    [i \in 1 .. Len(c) |->
        IF Matches(c[i], f) THEN [c[i] EXCEPT !.a = @ + v] ELSE c[i]]

\* C23: an update that returns and whose update_spec has no operator key has
\* set the named field on every matching document and has left the other
\* field and the identifier of those documents, and every non-matching
\* document, as they were; an update_spec with an operator key is dispatched
\* as it is: an increment increments, and a spec that mixes an operator key
\* with a plain field is refused by the backend and changes nothing
C23_PlainSpecSetsNamedFields ==
    [][last'.op = "update" =>
          LET f == last'.args[1]
              u == last'.args[2]
              old == SubSeq(coll', 1, Len(coll)) IN
          /\ (last'.outcome = "ok" /\ u.kind = "Fields")
                => /\ Len(coll') >= Len(coll)
                   /\ \A i \in 1 .. Len(coll) :
                          old[i] = OnlyFieldSet(coll, f, u.a)[i]
          /\ (last'.outcome = "ok" /\ u.kind = "Inc")
                => /\ Len(coll') >= Len(coll)
                   /\ \A i \in 1 .. Len(coll) :
                          old[i] = OnlyFieldIncremented(coll, f, u.a)[i]
          /\ u.kind = "Mixed" => (last'.outcome # "ok" /\ coll' = coll)
          /\ last'.outcome # "ok" => coll' = coll]_vars

\* an update with a plain update_spec that changed one of two documents, the
\* changed one keeping its second field
C23_Witness ==
    /\ last.op = "update"
    /\ last.outcome = "ok"
    /\ last.args[1] = FieldArg(0)
    /\ last.args[2] = FieldArg(1)
    /\ last.value = IntVal(1)
    /\ Len(coll) = 2
    /\ \E i, j \in 1 .. 2 :
          /\ coll[i] = [id |-> i, a |-> 1, b |-> 1]
          /\ coll[j] = [id |-> j, a |-> 1]

\* ------------------------------------------------------------------ C24
\* C24: an update with upsert that returns and whose filter matched no
\* document has appended exactly one document, left the others as they
\* were, and has returned the modified count 0
C24_UpsertCreatesOne ==
    [][(/\ last'.op = "update"
        /\ last'.outcome = "ok"
        /\ last'.args[3]
        /\ SelectSeq2(coll, last'.args[1], TRUE) = <<>>)
       => /\ Len(coll') = Len(coll) + 1
          /\ SubSeq(coll', 1, Len(coll)) = coll
          /\ coll'[Len(coll')].id = nextId
          /\ \A i \in 1 .. Len(coll) : coll[i].id # nextId
          /\ last'.value = IntVal(0)]_vars

\* an upsert that created the second document of the collection
C24_Witness ==
    /\ last.op = "update"
    /\ last.outcome = "ok"
    /\ last.args[3]
    /\ last.args[1] = FieldArg(0)
    /\ last.value = IntVal(0)
    /\ Len(coll) = 2
    /\ coll[1].a # 0
    /\ coll[2].id = 2

\* ------------------------------------------------------------------ C25
\* the call of the step reached the backend on a live handle, with a
\* database resolved, and the backend was reachable
Served(backendOk) ==
    GetCollection.raised = "none" /\ BackendCall(backendOk)

\* C25: find with no filter or the empty filter and limit 0 returns every
\* document of the collection; delete with the empty filter removes every
\* document and returns how many there were; update and delete with the
\* empty filter are carried out whenever the backend is served, never
\* rejected
C25_EmptyFilterMatchesAll ==
    [][/\ (/\ last'.op = "find"
           /\ last'.args[1] \in {NoneArg, EmptyArg}
           /\ last'.args[2] = 0
           /\ Served(last'.args[3]))
          => /\ last'.outcome = "ok"
             /\ Len(last'.docs) = Len(coll)
             /\ \A i \in 1 .. Len(coll) :
                    last'.docs[i] = [coll[i] EXCEPT !.id = StrVal(@)]
       /\ (/\ last'.op = "delete"
           /\ last'.args[1] = EmptyArg
           /\ Served(last'.args[2]))
          => /\ last'.outcome = "ok"
             /\ coll' = <<>>
             /\ last'.value = IntVal(Len(coll))
       /\ (/\ last'.op = "update"
           /\ last'.args[1] = EmptyArg
           /\ last'.args[2].kind \in {"Fields", "Set"}
           /\ Served(last'.args[4]))
          => /\ last'.outcome = "ok"
             /\ coll # <<>> =>
                    /\ Len(coll') = Len(coll)
                    /\ \A i \in 1 .. Len(coll) : coll'[i].a = last'.args[2].a
      ]_vars

\* a find without a filter that returned both documents of the collection,
\* which differ in their field
C25_Witness ==
    /\ last.op = "find"
    /\ last.outcome = "ok"
    /\ last.args[1] = NoneArg
    /\ last.args[2] = 0
    /\ Len(last.docs) = 2
    /\ Len(coll) = 2
    /\ coll[1].a # coll[2].a

\* ------------------------------------------------------------------ C26
\* a plain string: the text of an ObjectId or a string of digits
IsString(v) == v.kind \in {"Str", "Dec"}

\* the fields of a returned document are those of the inserted data
SameFields(doc, data) ==
    /\ doc.a = data.a
    /\ ("b" \in DOMAIN doc) = ("b" \in DOMAIN data)
    /\ "b" \in DOMAIN data => doc.b = data.b

\* the step is a served find with an equality filter on the field of the
\* document the insert before it stored, and no other document matches
FindAfterInsert ==
    /\ last.op = "insert"
    /\ last.outcome = "ok"
    /\ last'.op = "find"
    /\ last'.args[1] = FieldArg(last.args[1].a)
    /\ Served(last'.args[3])
    /\ Len(SelectSeq2(coll, last'.args[1], TRUE)) = 1

\* what C26 promises of the find
FoundAsInserted ==
    /\ last'.outcome = "ok"
    /\ Len(last'.docs) = 1
    /\ SameFields(last'.docs[1], last.args[1])
    /\ IsString(last'.docs[1].id)
    /\ last'.docs[1].id.id = last.value.id

\* C26 as stated: insert followed by find with an equality filter on the
\* inserted field, no other document matching, returns exactly one document
\* with the inserted fields and with a plain-string identifier equal to the
\* value insert returned
C26_FindReturnsInsertedId ==
    [][FindAfterInsert => FoundAsInserted]_vars

\* C26, amended: the same for a document that brings no identifier of its
\* own, whose identifier the backend assigns; a document that brings an
\* integer identifier is found with the inserted fields and with that
\* integer as its identifier, while insert returned its digits as a string
C26_FindReturnsAssignedId ==
    [][FindAfterInsert =>
          IF "oid" \in DOMAIN last.args[1]
          THEN /\ last'.outcome = "ok"
               /\ Len(last'.docs) = 1
               /\ SameFields(last'.docs[1], last.args[1])
               /\ last'.docs[1].id = IntVal(last.args[1].oid)
               /\ last.value = DecStr(last.args[1].oid)
          ELSE /\ FoundAsInserted
               /\ last'.docs[1].id = last.value
               /\ last.value.kind = "Str"]_vars

\* a find that returned the two-field document inserted right before, under
\* the string identifier insert had returned
C26_Witness ==
    /\ last.op = "find"
    /\ last.outcome = "ok"
    /\ last.args[1] = FieldArg(0)
    /\ last.docs = <<[id |-> StrVal(1), a |-> 0, b |-> 1]>>
    /\ coll = <<[id |-> -1, a |-> 1], [id |-> 1, a |-> 0, b |-> 1]>>

\* ------------------------------------------------------------------ C27
NeitherUriNorHost(d) == ~StrTruthy(d.uri) /\ ~StrTruthy(d.host)

\* C27: constructing a descriptor with neither uri nor host fails with a
\* configuration error and leaves no descriptor; reading the derived URI of
\* a descriptor whose host was unset after construction, uri being absent,
\* fails with a configuration error and yields no value
C27_NoUriWithoutUriOrHost ==
    [][/\ (last'.op = "NoSQLConnection" /\ NeitherUriNorHost(last'.args[1]))
          => (last'.outcome = "ConfigError" /\ ~conn'.built)
       /\ (last'.op = "connection_uri" /\ NeitherUriNorHost(conn))
          => (last'.outcome = "ConfigError" /\ last'.uri = "")
       /\ (last'.op = "connection_uri" /\ last'.outcome = "ok")
          => ~NeitherUriNorHost(conn)]_vars

\* the derived URI was read and refused on a descriptor that was constructed
\* with a host, which was unset afterwards
C27_Witness ==
    /\ last.op = "connection_uri"
    /\ last.outcome = "ConfigError"
    /\ conn.built
    /\ conn.host = Absent
    /\ conn.uri = Absent
    /\ conn.port = Some(27017)

\* ------------------------------------------------------------------ C28
\* an optional component: the text when the field is set, nothing otherwise
Opt(present, text) == IF present THEN text ELSE ""

\* the derived URI as C28 spells it out
ClaimedUri(d) ==
    Opt(d.ssl, "mongodb+srv") \o Opt(~d.ssl, "mongodb") \o "://"
    \o Opt(StrTruthy(d.username),
           d.username[1]
           \o Opt(StrTruthy(d.password), ":" \o d.password[1]) \o "@")
    \o d.host[1]
    \o Opt(IntTruthy(d.port), ":" \o ToString(d.port[1]))
    \o Opt(StrTruthy(d.database), "/" \o d.database[1])
    \o Opt(StrTruthy(d.auth_source), "?authSource=" \o d.auth_source[1])

\* C28: reading the derived URI of a descriptor with a host and no uri
\* returns scheme, "://", the optional username with its optional password
\* and "@", the host, the optional port, the optional database and the
\* optional authSource parameter, in this order; a password without a
\* username adds nothing (a field counts as set when it holds a non-empty
\* string or a non-zero port)
C28_DerivedUriFromComponents ==
    [][(/\ last'.op = "connection_uri"
        /\ StrTruthy(conn.host)
        /\ ~StrTruthy(conn.uri))
       => /\ last'.outcome = "ok"
          /\ last'.uri = ClaimedUri(conn)
          /\ ~StrTruthy(conn.username) =>
                 last'.uri = ClaimedUri([conn EXCEPT !.password = Absent])
      ]_vars

\* the derived URI of a descriptor with every component set
C28_Witness ==
    /\ last.op = "connection_uri"
    /\ last.uri = "mongodb+srv://u:p@h:27017/d?authSource=a"

\* ------------------------------------------------------------------ C29
\* C29: the derived URI of a descriptor with a uri is that uri, whatever its
\* components are, and a constructed descriptor holds every field as it was
\* given
C29_UriTakesPrecedence ==
    [][/\ (last'.op = "connection_uri" /\ StrTruthy(conn.uri))
          => (last'.outcome = "ok" /\ last'.uri = conn.uri[1])
       /\ (last'.op = "NoSQLConnection" /\ last'.outcome = "ok")
          => conn' = last'.args[1]]_vars

\* the derived URI of a descriptor with a uri and with every component set
C29_Witness ==
    /\ last.op = "connection_uri"
    /\ last.uri = "mongodb://o"
    /\ conn.host = Some("h")
    /\ conn.port = Some(27017)
    /\ conn.username = Some("u")
    /\ conn.password = Some("p")
    /\ conn.database = Some("d")
    /\ conn.auth_source = Some("a")
    /\ conn.ssl

\* ------------------------------------------------------------------ C30
\* every worker has left its with-statement, and every body inserted
\* through the Store
AllDone == \A t \in Threads : pc[t] \in {"done_ok", "done_err"}
Succeeded == {t \in Threads : pc[t] = "done_ok"}
Raised == {t \in Threads : pc[t] = "done_err"}

\* C30: when the five workers have finished, each having inserted through
\* the Store inside its block, at least three of the inserts have succeeded
\* and at most two workers have caught an exception
C30_AtLeastThreeSucceed ==
    AllDone => (Cardinality(Succeeded) >= 3 /\ Cardinality(Raised) <= 2)

\* ------------------------------------------------------------------ C31
\* C31: two Stores built from the same configuration never share an adapter
\* or a backend client object, and connecting, closing, entering or leaving a
\* block or a data operation on one of them, whether it succeeds or fails,
\* leaves the other's adapter, handle and database reference, and the state
\* of the backend client object it holds, as they were
C31_StoresIndependent ==
    [][/\ (adapter' # 0 => adapter' # peer'.adapter)
       /\ (client' # None => client' # peer'.client)
       /\ (last'.op # "switch" =>
              /\ peer' = peer
              /\ peer.client # None =>
                     /\ handles'[peer.client] = handles[peer.client]
                     /\ closeCount'[peer.client] = closeCount[peer.client])]_vars

\* one Store has been closed while the other stays connected through its own
\* backend client object
C31_Witness ==
    /\ last.op = "_close"
    /\ last.outcome = "ok"
    /\ last.pre # None
    /\ client = None
    /\ handles[last.pre] = "closed"
    /\ Live(peer.client)
    /\ peer.adapter # 0
    /\ adapter # 0

C33_ValidationWhateverTheConnection ==
    [][(/\ client = None
        /\ \/ last'.op \in PayloadOps /\ ~Truthy(PayloadOf(last'))
           \/ /\ last'.op = "bulk_delete"
              /\ last'.args[1].kind \in {"None", "Invalid"})
       => last'.outcome = "ValidationError"]_vars

\* ------------------------------------------------------------------ C34
\* C34: no insert, find, update, delete, bulk_insert, bulk_update or
\* bulk_delete, whether it returns or raises, changes the handle the Store
\* holds, constructs or closes a backend client object, or opens or closes a
\* with-block
C34_DataOpsKeepConnection ==
    [][last'.op \in DataOps \cup PayloadOps \cup {"bulk_delete"} =>
          /\ client' = client
          /\ handles' = handles
          /\ closeCount' = closeCount
          /\ blocks' = blocks]_vars

\* an update refused for want of a connection on a Store that has never
\* been connected: it has constructed no backend client object
C34_Witness ==
    /\ last.op = "update"
    /\ last.outcome = "NotConnected"
    /\ client = None
    /\ NeverConnected

\* ------------------------------------------------------------------ C35
\* the threads to which _connect has returned
Connected == {t \in Threads : pc[t] = "connected"}

\* C35 as stated: when two threads have called _connect on the Store while
\* it held no handle, and both calls have returned, exactly one backend
\* client object has been constructed and the Store holds it; there is no
\* open client object that the Store does not hold (taken for a Store on
\* which one adapter only was ever created)
C35_OneHandleForConcurrentConnects ==
    (/\ adapter = 1
     /\ Cardinality(Connected) >= 2
     /\ \A t \in Threads : pc[t] \in {"start", "connected"})
    => /\ Cardinality({h \in Handles : handles[h] # "unborn"}) = 1
       /\ Live(client)
       /\ \A h \in Handles : handles[h] = "open" => h = client

\* ------------------------------------------------------------------ C36
\* C36 as stated: when two threads have made the first access to a newly
\* constructed Store, exactly one adapter has been created and both threads
\* go on with that adapter
C36_OneAdapterForConcurrentAccess ==
    Cardinality({t \in Threads : local[t].adapter # 0}) >= 2
    => /\ adapter = 1
       /\ \A t \in Threads : local[t].adapter \in {0, 1}

\* ------------------------------------------------------------------ C37
\* C37 as stated: in every state of the Store used by one caller, every
\* backend client object that has been constructed is the handle the Store
\* holds or has been closed, and the handle the Store holds is open
C37_ClientsHeldOrClosed ==
    /\ \A h \in Handles : handles[h] = "open" => h = client
    /\ client # None => handles[client] = "open"

\* ------------------------------------------------------------------ C38
\* C38: a connect that fails, called directly or by entering a with-block,
\* hands the connection error to the caller and no value, leaves the Store
\* without a handle and opens no block; every connect on a Store without a
\* handle, also one that follows a failed connect, constructs a backend
\* client object that did not exist before, and when it succeeds that
\* object is the handle held and the value returned
C38_FailedConnectLeavesDisconnected ==
    [][/\ (last'.op \in ConnectOps /\ last'.outcome # "ok") =>
              /\ last'.outcome = "ConnectError"
              /\ last'.value = NoneVal
              /\ client = None
              /\ client' = None
              /\ blocks' = blocks
       /\ (last'.op \in ConnectOps /\ client = None) =>
              \E h \in Handles :
                 /\ handles[h] = "unborn"
                 /\ handles'[h] = "open"
                 /\ last'.outcome = "ok" =>
                        (client' = h /\ last'.value = HandleRef(h))]_vars

\* a connect that succeeded after one that had failed: the Store holds the
\* second client object, the first was never held and never closed
C38_Witness ==
    /\ last.op = "_connect"
    /\ last.outcome = "ok"
    /\ client = 2
    /\ last.value = HandleRef(2)
    /\ handles[1] = "open"
    /\ closeCount[1] = 0

====
